---------------------------- MODULE Spec2Model ----------------------------
(***************************************************************************)
(* Person detection in videos: the command-line driver (main), the batch   *)
(* driver (process_directory), the per-video frame loop (process_video),   *)
(* the frame source and sink (open_video_capture, create_video_writer),    *)
(* the annotator (draw_detections, _scales_for_bbox) and the metrics       *)
(* export (write_metrics_files).                                           *)
(*                                                                         *)
(* Modelling conventions                                                   *)
(*  - Pixel coordinates are floats in the code; here they are fixed-point  *)
(*    integers counting 1/Units of a pixel.                                *)
(*  - File names are sequences of character codes, so that pathlib's       *)
(*    suffix, str.lower and Python's string ordering are computed.         *)
(*  - A float quotient is an exact fraction [num, den] in lowest terms.    *)
(*  - The detector is a black box: detect returns any list of at most      *)
(*    MaxDets detections, or raises.                                       *)
(*  - Wall-clock fields (duration_seconds, processing_fps) and the         *)
(*    pass-through fields (model, conf, device) of VideoMetrics, and the   *)
(*    console output, are left out.                                        *)
(***************************************************************************)
EXTENDS Integers, Sequences, FiniteSets, TLC

\* ------------------------------------------------------------------ bounds
\* Longest video, in frames.
MaxFrames == 2
\* Most detections the detector returns for one frame.
MaxDets == 2
\* Largest requested inference size explored exhaustively (SpecImgsz).
MaxImgsz == 70
\* Largest native width / height explored exhaustively (SpecImgsz).
MaxDim == 34
\* Sub-pixel resolution: a coordinate c stands for c / Units pixels.
Units == 2

\* --------------------------------------------------------- program constants
\* _adjust_imgsz_to_stride(imgsz, stride=32)
Stride == 32
\* _scales_for_bbox: ref < 60
SmallLimit == 60
\* _scales_for_bbox: ref < 150
MediumLimit == 150

\* -------------------------------------------------------------- characters
\* str.lower() on one character code (ASCII letters).
LowerChar(c) ==
    IF c >= 65 /\ c <= 90 THEN c + 32 ELSE c

Lower(s) ==
    [i \in 1..Len(s) |-> LowerChar(s[i])]

\* str.rfind("."), 1-based: the last index of a dot (code 46), 0 when none.
RFindDot(s) ==
    IF \E i \in 1..Len(s) : s[i] = 46
      THEN CHOOSE i \in 1..Len(s) : s[i] = 46 /\ \A j \in (i+1)..Len(s) : s[j] # 46
      ELSE 0

\* pathlib PurePath.suffix: the final component's last dot and what follows,
\* empty when the name has no dot, starts with its only dot or ends with a dot.
Suffix(s) ==
    LET i == RFindDot(s)
    IN  IF i > 1 /\ i < Len(s) THEN SubSeq(s, i, Len(s)) ELSE << >>

\* Python's str ordering: lexicographic by code point, a proper prefix first.
RECURSIVE StrLess(_, _)
StrLess(a, b) ==
    IF b = << >> THEN FALSE
    ELSE IF a = << >> THEN TRUE
    ELSE IF Head(a) # Head(b) THEN Head(a) < Head(b)
    ELSE StrLess(Tail(a), Tail(b))

\* VIDEO_EXTENSIONS = {".mp4", ".mov", ".avi", ".mkv"}
VIDEO_EXTENSIONS ==
    { <<46, 109, 112, 52>>, <<46, 109, 111, 118>>,
      <<46, 97, 118, 105>>, <<46, 109, 107, 118>> }

\* ------------------------------------------------------------- arithmetic
Max(a, b) == IF a >= b THEN a ELSE b

Min(a, b) == IF a <= b THEN a ELSE b

RECURSIVE GCD(_, _)
GCD(a, b) ==
    IF b = 0 THEN a ELSE GCD(b, a % b)

RECURSIVE SumSeq(_)
SumSeq(s) ==
    IF s = << >> THEN 0 ELSE Head(s) + SumSeq(Tail(s))

\* Python's a / b on ints: ZeroDivisionError for b = 0, else the quotient.
TrueDiv(a, b) ==
    IF b = 0
      THEN [ok |-> FALSE, num |-> 0, den |-> 1]
      ELSE LET g == GCD(a, b)
           IN  [ok |-> TRUE, num |-> a \div g, den |-> b \div g]

\* The float 0.0.
FloatZero == [ok |-> TRUE, num |-> 0, den |-> 1]

\* math.ceil of the quotient a / b (a >= 0, b > 0).
CeilQuot(a, b) ==
    IF a % b = 0 THEN a \div b ELSE (a \div b) + 1

\* round(x, 2) of a non-negative quotient, in hundredths: nearest, ties to even.
Round2(q) ==
    LET n  == 100 * q.num
        fl == n \div q.den
        r2 == 2 * (n % q.den)
    IN  IF r2 < q.den THEN fl
        ELSE IF r2 > q.den THEN fl + 1
        ELSE IF fl % 2 = 0 THEN fl ELSE fl + 1

\* ----------------------------------------------------- inference size
\* imgsz: int | Tuple[int, int] | None
NoImgsz == [kind |-> "none", a |-> 0, b |-> 0]

IntImgsz(s) == [kind |-> "int", a |-> s, b |-> s]

PairImgsz(h, w) == [kind |-> "pair", a |-> h, b |-> w]

AdjustFloor(imgsz, stride) ==
    IF imgsz.kind = "int"
      THEN IntImgsz((imgsz.a \div stride) * stride)
      ELSE PairImgsz((imgsz.a \div stride) * stride, (imgsz.b \div stride) * stride)

_adjust_imgsz_to_stride(imgsz, stride) ==
    IF imgsz.kind = "int"
      THEN IntImgsz(CeilQuot(imgsz.a, stride) * stride)
      ELSE PairImgsz(CeilQuot(imgsz.a, stride) * stride,
                     CeilQuot(imgsz.b, stride) * stride)

\* process_video, lines 60-68: default to the native (height, width), then snap.
EffectiveImgsz(imgsz, md) ==
    LET chosen == IF imgsz.kind = "none" THEN PairImgsz(md.height, md.width) ELSE imgsz
    IN  IF chosen.kind # "none" THEN _adjust_imgsz_to_stride(chosen, Stride) ELSE chosen

\* ------------------------------------------------------------- annotator
\* DrawScale; text_scale in hundredths.
DrawScale(ts, tt, bt, pad) ==
    [text_scale |-> ts, text_thickness |-> tt, box_thickness |-> bt, padding |-> pad]

ScalesByLongerSide(bbox) ==
    LET w   == Max(1 * Units, bbox[3] - bbox[1])
        h   == Max(1 * Units, bbox[4] - bbox[2])
        ref == Max(w, h)
    IN  IF ref < SmallLimit * Units THEN DrawScale(40, 1, 1, 2)
        ELSE IF ref < MediumLimit * Units THEN DrawScale(55, 1, 2, 4)
        ELSE DrawScale(75, 2, 3, 6)

_scales_for_bbox(bbox) ==
    LET w   == Max(1 * Units, bbox[3] - bbox[1])
        h   == Max(1 * Units, bbox[4] - bbox[2])
        ref == Min(w, h)
    IN  IF ref < SmallLimit * Units THEN DrawScale(40, 1, 1, 2)
        ELSE IF ref < MediumLimit * Units THEN DrawScale(55, 1, 2, 4)
        ELSE DrawScale(75, 2, 3, 6)

\* int(coord): truncation toward zero.
IntCast(c) ==
    IF c >= 0 THEN c \div Units ELSE -((-c) \div Units)

_as_int_tuple(bbox) ==
    [i \in 1..4 |-> IntCast(bbox[i])]

\* The annotated copy of a frame: the frame and, per detection in order, the
\* rectangle drawn and the scale used for the rectangle and the label.
draw_detections(fr, dets) ==
    [id |-> fr,
     shapes |-> [i \in 1..Len(dets) |->
                    [rect  |-> _as_int_tuple(dets[i].bbox),
                     scale |-> _scales_for_bbox(dets[i].bbox)]]]

NoFrame == [id |-> 0, shapes |-> << >>]

\* Detection(bbox, confidence, class_name); confidence in hundredths.
Detection(bbox, conf) ==
    [bbox |-> bbox, confidence |-> conf, class_name |-> "person"]

\* ------------------------------------------------------------ file system
\* A directory entry or an input file: its name, whether it is a regular file,
\* whether the container can be opened, its dimensions and its frames 1..nframes.
File(name, is_file, openable, width, height, nframes) ==
    [name |-> name, is_file |-> is_file, openable |-> openable,
     width |-> width, height |-> height, nframes |-> nframes]

\* "B.MOV", "a.avi" (no frames), "b.mp4", "c.mkv" (corrupt), the directory
\* "d.mkv" and the text file "e.txt".
Universe ==
    { File(<<66, 46, 77, 79, 86>>, TRUE, TRUE, 64, 48, 1),
      File(<<97, 46, 97, 118, 105>>, TRUE, TRUE, 100, 33, 0),
      File(<<98, 46, 109, 112, 52>>, TRUE, TRUE, 64, 48, 2),
      File(<<99, 46, 109, 107, 118>>, TRUE, FALSE, 0, 0, 0),
      File(<<100, 46, 109, 107, 118>>, FALSE, FALSE, 0, 0, 0),
      File(<<101, 46, 116, 120, 116>>, TRUE, FALSE, 0, 0, 0) }

\* Path("assets").name
AssetsName == <<97, 115, 115, 101, 116, 115>>

\* What "assets" can be when it is a single file.
SingleFiles ==
    { File(AssetsName, TRUE, TRUE, 64, 48, n) : n \in 0..MaxFrames }
    \cup { File(AssetsName, TRUE, FALSE, 0, 0, 0),
           File(AssetsName, TRUE, TRUE, 0, 48, 1) }

NoFile == File(<< >>, FALSE, FALSE, 0, 0, 0)

\* Path.mkdir(parents=True, exist_ok=True) on the output directory.
Mkdir(d) ==
    IF d = "absent" THEN "created" ELSE d

\* ------------------------------------------------------------- detections
BBoxSamples ==
    { <<10 * Units, 10 * Units, 40 * Units, 40 * Units>>,
      <<5 * Units + 1, 0, 105 * Units + 1, 80 * Units>>,
      <<0, 0, 200 * Units, 200 * Units>> }

DetectionSamples ==
    { Detection(b, 90) : b \in BBoxSamples }

\* Every list of at most n elements of S.
SeqsUpTo(S, n) ==
    UNION { [1..k -> S] : k \in 0..n }

\* ------------------------------------------------------------------ state
VARIABLES
    assets,            \* the input path: missing, a file, or a directory
    argImgsz,          \* args.imgsz
    outDir,            \* the output directory: absent, preexisting, created
    outFiles,          \* output videos: file name -> frames received, in order
    metricsJson,       \* metrics.json
    metricsCsv,        \* metrics.csv
    mode,              \* who called process_video: batch, single, call
    pc,                \* the program's position
    videos,            \* process_directory: the sorted video list
    idx,               \* process_directory: position in videos
    collected,         \* process_directory: the metrics collected
    pvInput,           \* process_video: input_path
    pvOut,             \* process_video: output_path (file name)
    capture,           \* cv2.VideoCapture
    metadata,          \* VideoMetadata
    effective_imgsz,
    detector,          \* Detector
    writer,            \* cv2.VideoWriter
    frame_index,
    total_detections,
    frame,             \* the frame read, 0 for none
    detections,
    annotated,
    exc,               \* the exception in flight
    ret,               \* process_video's return value
    readLog,           \* frames capture.read() returned, in order
    detLog,            \* len(detections) per detect call, in order
    openedLog          \* input names process_video was called with, in order

vars ==
    << assets, argImgsz, outDir, outFiles, metricsJson, metricsCsv, mode, pc,
       videos, idx, collected, pvInput, pvOut, capture, metadata,
       effective_imgsz, detector, writer, frame_index, total_detections,
       frame, detections, annotated, exc, ret, readLog, detLog, openedLog >>

fsVars == << outDir, outFiles, metricsJson, metricsCsv >>

inputVars == << assets, argImgsz >>

pdVars == << videos, idx, collected >>

loopVars == << frame_index, total_detections, frame, detections, annotated >>

NoCapture == [state |-> "none", pos |-> 0]

NoMetadata == [width |-> 0, height |-> 0]

NoDetector == [built |-> FALSE, imgsz |-> NoImgsz]

NoMetrics ==
    [input_path |-> << >>, output_path |-> << >>, frames |-> 0,
     total_detections |-> 0, avg_detections_per_frame |-> FloatZero,
     imgsz |-> NoImgsz]

NoExport == [written |-> FALSE, data |-> << >>]

\* Everything but the inputs, before main runs.
Fresh ==
    /\ outFiles = << >>
    /\ metricsJson = NoExport
    /\ metricsCsv = NoExport
    /\ videos = << >>
    /\ idx = 0
    /\ collected = << >>
    /\ pvInput = [exists |-> FALSE, file |-> NoFile]
    /\ pvOut = << >>
    /\ capture = NoCapture
    /\ metadata = NoMetadata
    /\ effective_imgsz = NoImgsz
    /\ detector = NoDetector
    /\ writer = "none"
    /\ frame_index = 0
    /\ total_detections = 0
    /\ annotated = NoFrame
    /\ exc = "none"
    /\ ret = NoMetrics
    /\ readLog = << >>
    /\ detLog = << >>
    /\ openedLog = << >>

Init ==
    /\ assets \in
          { [kind |-> "missing", entries |-> {}, file |-> NoFile] }
          \cup { [kind |-> "file", entries |-> {}, file |-> f] : f \in SingleFiles }
          \cup { [kind |-> "dir", entries |-> S, file |-> NoFile] : S \in SUBSET Universe }
    /\ argImgsz \in { NoImgsz, IntImgsz(500) }
    /\ outDir \in { "absent", "preexisting" }
    /\ mode = "main"
    /\ pc = "main"
    /\ frame = 0
    /\ detections = << >>
    /\ Fresh

\* ------------------------------------------------------------ _list_videos
IsVideo(p) ==
    p.is_file /\ Lower(Suffix(p.name)) \in VIDEO_EXTENSIONS

\* sorted(..., key=lambda p: p.name) of a set of entries with distinct names.
RECURSIVE SortByName(_)
SortByName(S) ==
    IF S = {} THEN << >>
    ELSE LET m == CHOOSE x \in S : \A y \in S \ {x} : StrLess(x.name, y.name)
         IN  <<m>> \o SortByName(S \ {m})

RECURSIVE Reverse(_)
Reverse(q) ==
    IF q = << >> THEN << >> ELSE Append(Reverse(Tail(q)), Head(q))

ListVideosReversed(entries) ==
    Reverse(SortByName({ p \in entries : IsVideo(p) }))

_list_videos(entries) ==
    SortByName({ p \in entries : IsVideo(p) })

\* ------------------------------------------------------ write_metrics_files
\* asdict + _round_float_fields(ndigits=2): the average in hundredths.
ExportRecord(m) ==
    [input_path |-> m.input_path, output_path |-> m.output_path,
     frames |-> m.frames, total_detections |-> m.total_detections,
     avg_detections_per_frame |-> Round2(m.avg_detections_per_frame),
     imgsz |-> m.imgsz]

\* write_metrics_files(metrics, output_dir): metrics.json always, metrics.csv
\* only for a non-empty batch.
write_metrics_files(metrics) ==
    LET data == [i \in 1..Len(metrics) |-> ExportRecord(metrics[i])]
    IN  /\ outDir' = Mkdir(outDir)
        /\ metricsJson' = [written |-> TRUE, data |-> data]
        /\ metricsCsv' = IF data # << >>
                           THEN [written |-> TRUE, data |-> data]
                           ELSE metricsCsv

\* ------------------------------------------------------------ process_video
\* The call: fresh locals for one run.
CallProcessVideo(input, out) ==
    /\ pvInput' = input
    /\ pvOut' = out
    /\ openedLog' = Append(openedLog, input.file.name)
    /\ capture' = NoCapture
    /\ metadata' = NoMetadata
    /\ effective_imgsz' = NoImgsz
    /\ detector' = NoDetector
    /\ writer' = "none"
    /\ frame_index' = 0
    /\ total_detections' = 0
    /\ frame' = 0
    /\ detections' = << >>
    /\ annotated' = NoFrame
    /\ exc' = "none"
    /\ ret' = NoMetrics
    /\ readLog' = << >>
    /\ detLog' = << >>
    /\ pc' = "pv_open"

\* open_video_capture: the path does not exist.
PvOpenNotFound ==
    /\ pc = "pv_open"
    /\ ~pvInput.exists
    /\ exc' = "FileNotFoundError"
    /\ pc' = "pv_raised"
    /\ UNCHANGED << inputVars, fsVars, mode, pdVars, pvInput, pvOut, capture,
                    metadata, effective_imgsz, detector, writer, loopVars, ret,
                    readLog, detLog, openedLog >>

\* open_video_capture: capture.isOpened() is false.
PvOpenFail ==
    /\ pc = "pv_open"
    /\ pvInput.exists
    /\ ~pvInput.file.openable
    /\ exc' = "ValueError"
    /\ pc' = "pv_raised"
    /\ UNCHANGED << inputVars, fsVars, mode, pdVars, pvInput, pvOut, capture,
                    metadata, effective_imgsz, detector, writer, loopVars, ret,
                    readLog, detLog, openedLog >>

\* open_video_capture: width <= 0 or height <= 0: release and raise.
PvOpenBadDims ==
    /\ pc = "pv_open"
    /\ pvInput.exists
    /\ pvInput.file.openable
    /\ (pvInput.file.width <= 0 \/ pvInput.file.height <= 0)
    /\ capture' = [state |-> "released", pos |-> 0]
    /\ exc' = "ValueError"
    /\ pc' = "pv_raised"
    /\ UNCHANGED << inputVars, fsVars, mode, pdVars, pvInput, pvOut,
                    metadata, effective_imgsz, detector, writer, loopVars, ret,
                    readLog, detLog, openedLog >>

\* open_video_capture succeeds; lines 60-70 choose the inference size.
PvOpenOk ==
    /\ pc = "pv_open"
    /\ pvInput.exists
    /\ pvInput.file.openable
    /\ pvInput.file.width > 0
    /\ pvInput.file.height > 0
    /\ capture' = [state |-> "open", pos |-> 0]
    /\ metadata' = [width |-> pvInput.file.width, height |-> pvInput.file.height]
    /\ effective_imgsz' = EffectiveImgsz(argImgsz, metadata')
    /\ pc' = "pv_detector"
    /\ UNCHANGED << inputVars, fsVars, mode, pdVars, pvInput, pvOut,
                    detector, writer, loopVars, exc, ret,
                    readLog, detLog, openedLog >>

\* Detector(...) loads the weights and resolves the person class.
PvDetectorInit ==
    /\ pc = "pv_detector"
    /\ detector' = [built |-> TRUE, imgsz |-> effective_imgsz]
    /\ pc' = "pv_writer"
    /\ UNCHANGED << inputVars, fsVars, mode, pdVars, pvInput, pvOut, capture,
                    metadata, effective_imgsz, writer, loopVars, exc, ret,
                    readLog, detLog, openedLog >>

\* Detector(...) raises (weights cannot be loaded, no 'person' class):
\* line 71 is outside the try block, the exception leaves process_video.
PvDetectorInitFail ==
    /\ pc = "pv_detector"
    /\ exc' \in { "ValueError" }
    /\ pc' = "pv_raised"
    /\ UNCHANGED << inputVars, fsVars, mode, pdVars, pvInput, pvOut, capture,
                    metadata, effective_imgsz, detector, writer, loopVars, ret,
                    readLog, detLog, openedLog >>

\* create_video_writer succeeds: the parent directory is made, the writer
\* opens (creating the output file); lines 74-76 zero the counters.
PvCreateWriter ==
    /\ pc = "pv_writer"
    /\ outDir' = Mkdir(outDir)
    /\ outFiles' = (pvOut :> << >>) @@ outFiles
    /\ writer' = "open"
    /\ frame_index' = 0
    /\ total_detections' = 0
    /\ pc' = "pv_read"
    /\ UNCHANGED << inputVars, metricsJson, metricsCsv, mode, pdVars, pvInput,
                    pvOut, capture, metadata, effective_imgsz, detector, frame,
                    detections, annotated, exc, ret, readLog, detLog, openedLog >>

\* create_video_writer: writer.isOpened() is false; line 72 is outside the
\* try block, the exception leaves process_video.
PvCreateWriterFail ==
    /\ pc = "pv_writer"
    /\ outDir' = Mkdir(outDir)
    /\ writer' = "failed"
    /\ exc' = "ValueError"
    /\ pc' = "pv_raised"
    /\ UNCHANGED << inputVars, outFiles, metricsJson, metricsCsv, mode, pdVars,
                    pvInput, pvOut, capture, metadata, effective_imgsz, detector,
                    loopVars, ret, readLog, detLog, openedLog >>

PvReadSkip ==
    /\ pc = "pv_read"
    /\ capture.pos < pvInput.file.nframes
    /\ capture' = [capture EXCEPT !.pos = @ + 1]
    /\ frame' = capture.pos + 2
    /\ readLog' = Append(readLog, capture.pos + 2)
    /\ pc' = "pv_detect"
    /\ UNCHANGED << inputVars, fsVars, mode, pdVars, pvInput, pvOut, metadata,
                    effective_imgsz, detector, writer, frame_index,
                    total_detections, detections, annotated, exc, ret, detLog,
                    openedLog >>

\* capture.read() returns the next frame.
PvRead ==
    /\ pc = "pv_read"
    /\ capture.pos < pvInput.file.nframes
    /\ capture' = [capture EXCEPT !.pos = @ + 1]
    /\ frame' = capture.pos + 1
    /\ readLog' = Append(readLog, capture.pos + 1)
    /\ pc' = "pv_detect"
    /\ UNCHANGED << inputVars, fsVars, mode, pdVars, pvInput, pvOut, metadata,
                    effective_imgsz, detector, writer, frame_index,
                    total_detections, detections, annotated, exc, ret, detLog,
                    openedLog >>

\* capture.read() returns ret = False: break.
PvReadEnd ==
    /\ pc = "pv_read"
    /\ capture.pos >= pvInput.file.nframes
    /\ frame' = 0
    /\ pc' = "pv_finally"
    /\ UNCHANGED << inputVars, fsVars, mode, pdVars, pvInput, pvOut, capture,
                    metadata, effective_imgsz, detector, writer, frame_index,
                    total_detections, detections, annotated, exc, ret, readLog,
                    detLog, openedLog >>

PvDetectOverwrite ==
    /\ pc = "pv_detect"
    /\ \E ds \in SeqsUpTo(DetectionSamples, MaxDets) :
         /\ detections' = ds
         /\ total_detections' = Len(ds)
         /\ detLog' = Append(detLog, Len(ds))
    /\ pc' = "pv_draw"
    /\ UNCHANGED << inputVars, fsVars, mode, pdVars, pvInput, pvOut, capture,
                    metadata, effective_imgsz, detector, writer, frame_index,
                    frame, annotated, exc, ret, readLog, openedLog >>

\* detections = detector.detect(frame); total_detections += len(detections)
PvDetect ==
    /\ pc = "pv_detect"
    /\ \E ds \in SeqsUpTo(DetectionSamples, MaxDets) :
         /\ detections' = ds
         /\ total_detections' = total_detections + Len(ds)
         /\ detLog' = Append(detLog, Len(ds))
    /\ pc' = "pv_draw"
    /\ UNCHANGED << inputVars, fsVars, mode, pdVars, pvInput, pvOut, capture,
                    metadata, effective_imgsz, detector, writer, frame_index,
                    frame, annotated, exc, ret, readLog, openedLog >>

\* annotated = draw_detections(frame, detections)
PvDraw ==
    /\ pc = "pv_draw"
    /\ annotated' = draw_detections(frame, detections)
    /\ pc' = "pv_write"
    /\ UNCHANGED << inputVars, fsVars, mode, pdVars, pvInput, pvOut, capture,
                    metadata, effective_imgsz, detector, writer, frame_index,
                    total_detections, frame, detections, exc, ret, readLog,
                    detLog, openedLog >>

\* writer.write(annotated); frame_index += 1. The locals frame, detections
\* and annotated are dead from here on (each is assigned before its next
\* use), so they are cleared.
PvWrite ==
    /\ pc = "pv_write"
    /\ outFiles' = [outFiles EXCEPT ![pvOut] = Append(@, annotated.id)]
    /\ frame_index' = frame_index + 1
    /\ frame' = 0
    /\ detections' = << >>
    /\ annotated' = NoFrame
    /\ pc' = "pv_read"
    /\ UNCHANGED << inputVars, outDir, metricsJson, metricsCsv, mode, pdVars,
                    pvInput, pvOut, capture, metadata, effective_imgsz, detector,
                    writer, total_detections, exc, ret, readLog, detLog,
                    openedLog >>

\* detect, draw_detections or write raises inside the try block.
PvStepFail ==
    /\ pc \in { "pv_detect", "pv_draw", "pv_write" }
    /\ exc' = "RuntimeError"
    /\ pc' = "pv_finally"
    /\ UNCHANGED << inputVars, fsVars, mode, pdVars, pvInput, pvOut, capture,
                    metadata, effective_imgsz, detector, writer, loopVars, ret,
                    readLog, detLog, openedLog >>

\* finally: capture.release(); writer.release(); an exception in flight then
\* leaves process_video.
PvFinally ==
    /\ pc = "pv_finally"
    /\ capture' = [capture EXCEPT !.state = "released"]
    /\ writer' = "released"
    /\ pc' = IF exc # "none" THEN "pv_raised" ELSE "pv_finalize"
    /\ UNCHANGED << inputVars, fsVars, mode, pdVars, pvInput, pvOut, metadata,
                    effective_imgsz, detector, loopVars, exc, ret, readLog,
                    detLog, openedLog >>

AvgDetNoGuard(total, n) ==
    TrueDiv(total, n)

\* avg_det = total_detections / frame_index if frame_index else 0.0
AvgDet(total, n) ==
    IF n # 0 THEN TrueDiv(total, n) ELSE FloatZero

\* Lines 91-111: the averages and the VideoMetrics returned.
PvReturn ==
    /\ pc = "pv_finalize"
    /\ LET avg_det == AvgDet(total_detections, frame_index)
       IN  IF avg_det.ok
             THEN /\ ret' = [input_path |-> pvInput.file.name,
                             output_path |-> pvOut,
                             frames |-> frame_index,
                             total_detections |-> total_detections,
                             avg_detections_per_frame |-> avg_det,
                             imgsz |-> effective_imgsz]
                  /\ pc' = "pv_returned"
                  /\ exc' = exc
             ELSE /\ ret' = ret
                  /\ exc' = "ZeroDivisionError"
                  /\ pc' = "pv_raised"
    /\ UNCHANGED << inputVars, fsVars, mode, pdVars, pvInput, pvOut, capture,
                    metadata, effective_imgsz, detector, writer, loopVars,
                    readLog, detLog, openedLog >>

NextVideo ==
    \/ PvOpenNotFound
    \/ PvOpenFail
    \/ PvOpenBadDims
    \/ PvOpenOk
    \/ PvDetectorInit
    \/ PvDetectorInitFail
    \/ PvCreateWriter
    \/ PvCreateWriterFail
    \/ PvRead
    \/ PvReadEnd
    \/ PvDetect
    \/ PvDraw
    \/ PvWrite
    \/ PvStepFail
    \/ PvFinally
    \/ PvReturn

\* -------------------------------------------------------- process_directory
PdMkdirThenRaise ==
    /\ pc = "pd_list"
    /\ _list_videos(assets.entries) = << >>
    /\ outDir' = Mkdir(outDir)
    /\ exc' = "FileNotFoundError"
    /\ pc' = "crashed"
    /\ UNCHANGED << inputVars, outFiles, metricsJson, metricsCsv, mode, pdVars,
                    pvInput, pvOut, capture, metadata, effective_imgsz, detector,
                    writer, loopVars, ret, readLog, detLog, openedLog >>

\* process_directory: _list_videos finds nothing: raise before any mkdir; the
\* exception leaves main.
PdRaiseEmpty ==
    /\ pc = "pd_list"
    /\ _list_videos(assets.entries) = << >>
    /\ exc' = "FileNotFoundError"
    /\ pc' = "crashed"
    /\ UNCHANGED << inputVars, fsVars, mode, pdVars, pvInput, pvOut, capture,
                    metadata, effective_imgsz, detector, writer, loopVars, ret,
                    readLog, detLog, openedLog >>

\* process_directory, lines 123-130: the list, the output directory, the
\* empty collection.
PdBegin ==
    /\ pc = "pd_list"
    /\ _list_videos(assets.entries) # << >>
    /\ videos' = _list_videos(assets.entries)
    /\ outDir' = Mkdir(outDir)
    /\ collected' = << >>
    /\ idx' = 1
    /\ pc' = "pd_loop"
    /\ UNCHANGED << inputVars, outFiles, metricsJson, metricsCsv, mode, pvInput,
                    pvOut, capture, metadata, effective_imgsz, detector, writer,
                    loopVars, exc, ret, readLog, detLog, openedLog >>

\* for video_path in videos: process_video(video_path, output_dir / name)
PdNext ==
    /\ pc = "pd_loop"
    /\ idx <= Len(videos)
    /\ CallProcessVideo([exists |-> TRUE, file |-> videos[idx]], videos[idx].name)
    /\ UNCHANGED << inputVars, fsVars, mode, pdVars >>

\* collected.append(metrics)
PdAppend ==
    /\ pc = "pv_returned"
    /\ mode = "batch"
    /\ collected' = Append(collected, ret)
    /\ idx' = idx + 1
    /\ pc' = "pd_loop"
    /\ UNCHANGED << inputVars, fsVars, mode, videos, pvInput, pvOut, capture,
                    metadata, effective_imgsz, detector, writer, loopVars, exc,
                    ret, readLog, detLog, openedLog >>

PdIsolateAndContinue ==
    /\ pc = "pv_raised"
    /\ mode = "batch"
    /\ idx' = idx + 1
    /\ pc' = "pd_loop"
    /\ UNCHANGED << inputVars, fsVars, mode, videos, collected, pvInput, pvOut,
                    capture, metadata, effective_imgsz, detector, writer,
                    loopVars, exc, ret, readLog, detLog, openedLog >>

\* process_video raised: neither process_directory nor main catches it.
PdPropagate ==
    /\ pc = "pv_raised"
    /\ mode = "batch"
    /\ pc' = "crashed"
    /\ UNCHANGED << inputVars, fsVars, mode, pdVars, pvInput, pvOut, capture,
                    metadata, effective_imgsz, detector, writer, loopVars, exc,
                    ret, readLog, detLog, openedLog >>

\* return collected
PdReturn ==
    /\ pc = "pd_loop"
    /\ idx > Len(videos)
    /\ pc' = "main_write"
    /\ UNCHANGED << inputVars, fsVars, mode, pdVars, pvInput, pvOut, capture,
                    metadata, effective_imgsz, detector, writer, loopVars, exc,
                    ret, readLog, detLog, openedLog >>

\* --------------------------------------------------------------------- main
\* main: input_path.is_dir(): output_dir = outputs, process_directory(...)
MainDir ==
    /\ pc = "main"
    /\ assets.kind = "dir"
    /\ mode' = "batch"
    /\ pc' = "pd_list"
    /\ UNCHANGED << inputVars, fsVars, pdVars, pvInput, pvOut, capture,
                    metadata, effective_imgsz, detector, writer, loopVars, exc,
                    ret, readLog, detLog, openedLog >>

\* main: not a directory: "outputs" has no suffix, so it is made and the
\* output is outputs/assets; process_video(...)
MainFile ==
    /\ pc = "main"
    /\ assets.kind # "dir"
    /\ mode' = "single"
    /\ outDir' = Mkdir(outDir)
    /\ CallProcessVideo(
         [exists |-> assets.kind = "file",
          file   |-> IF assets.kind = "file" THEN assets.file
                     ELSE File(AssetsName, FALSE, FALSE, 0, 0, 0)],
         AssetsName)
    /\ UNCHANGED << inputVars, outFiles, metricsJson, metricsCsv, pdVars >>

\* main: write_metrics_files(metrics, output_dir) after process_directory
MainWriteBatch ==
    /\ pc = "main_write"
    /\ write_metrics_files(collected)
    /\ pc' = "done"
    /\ UNCHANGED << inputVars, outFiles, mode, pdVars, pvInput, pvOut, capture,
                    metadata, effective_imgsz, detector, writer, loopVars, exc,
                    ret, readLog, detLog, openedLog >>

\* main: write_metrics_files([metrics], final_output.parent)
MainWriteSingle ==
    /\ pc = "pv_returned"
    /\ mode = "single"
    /\ write_metrics_files(<<ret>>)
    /\ pc' = "done"
    /\ UNCHANGED << inputVars, outFiles, mode, pdVars, pvInput, pvOut, capture,
                    metadata, effective_imgsz, detector, writer, loopVars, exc,
                    ret, readLog, detLog, openedLog >>

\* main: process_video raised and nothing catches it.
MainPropagate ==
    /\ pc = "pv_raised"
    /\ mode = "single"
    /\ pc' = "crashed"
    /\ UNCHANGED << inputVars, fsVars, mode, pdVars, pvInput, pvOut, capture,
                    metadata, effective_imgsz, detector, writer, loopVars, exc,
                    ret, readLog, detLog, openedLog >>

Next ==
    \/ MainDir
    \/ MainFile
    \/ PdRaiseEmpty
    \/ PdBegin
    \/ PdNext
    \/ PdAppend
    \/ PdPropagate
    \/ PdReturn
    \/ MainWriteBatch
    \/ MainWriteSingle
    \/ MainPropagate
    \/ NextVideo

\* The program run from the command line.
Spec == Init /\ [][Next]_vars

\* ------------------------------------------- process_video called directly
\* The inputs of one call: every native size up to MaxDim with no size
\* requested, every requested size up to MaxImgsz (and 500), a missing and an
\* unopenable input.
ImgszInputs ==
    { [imgsz |-> NoImgsz, exists |-> TRUE,
       file |-> File(AssetsName, TRUE, TRUE, w, h, 1)] : w \in 0..MaxDim, h \in 1..MaxDim }
    \cup { [imgsz |-> IntImgsz(s), exists |-> TRUE,
            file |-> File(AssetsName, TRUE, TRUE, 64, 48, 1)] : s \in (1..MaxImgsz) \cup {500} }
    \cup { [imgsz |-> NoImgsz, exists |-> FALSE,
            file |-> File(AssetsName, FALSE, FALSE, 0, 0, 0)],
           [imgsz |-> NoImgsz, exists |-> TRUE,
            file |-> File(AssetsName, TRUE, FALSE, 0, 0, 0)] }

InitImgsz ==
    \E in \in ImgszInputs :
      /\ assets = [kind |-> "file", entries |-> {}, file |-> in.file]
      /\ argImgsz = in.imgsz
      /\ outDir = "preexisting"
      /\ mode = "call"
      /\ pc = "pv_open"
      /\ frame = 0
      /\ detections = << >>
      /\ outFiles = << >>
      /\ metricsJson = NoExport
      /\ metricsCsv = NoExport
      /\ videos = << >>
      /\ idx = 0
      /\ collected = << >>
      /\ pvInput = [exists |-> in.exists, file |-> in.file]
      /\ pvOut = AssetsName
      /\ capture = NoCapture
      /\ metadata = NoMetadata
      /\ effective_imgsz = NoImgsz
      /\ detector = NoDetector
      /\ writer = "none"
      /\ frame_index = 0
      /\ total_detections = 0
      /\ annotated = NoFrame
      /\ exc = "none"
      /\ ret = NoMetrics
      /\ readLog = << >>
      /\ detLog = << >>
      /\ openedLog = << in.file.name >>

SpecImgsz == InitImgsz /\ [][NextVideo]_vars

\* ------------------------------------------- draw_detections called directly
CoordLow == { 0, 1, 10 * Units }

CoordHigh ==
    { 0, 1, 40 * Units,
      SmallLimit * Units - 1, SmallLimit * Units, (SmallLimit + 10) * Units - 1,
      (SmallLimit + 10) * Units,
      MediumLimit * Units - 1, MediumLimit * Units, (MediumLimit + 10) * Units - 1,
      (MediumLimit + 10) * Units, 200 * Units }

DrawInputs ==
    { Detection(<<x1, y1, x2, y2>>, c) :
        x1 \in CoordLow, y1 \in CoordLow, x2 \in CoordHigh, y2 \in CoordHigh,
        c \in { 50, 90 } }

InitDraw ==
    /\ assets = [kind |-> "missing", entries |-> {}, file |-> NoFile]
    /\ argImgsz = NoImgsz
    /\ outDir = "absent"
    /\ mode = "call"
    /\ pc = "draw_call"
    /\ frame = 1
    /\ detections \in SeqsUpTo(DrawInputs, 1)
    /\ Fresh

\* draw_detections(frame, detections)
DrawCall ==
    /\ pc = "draw_call"
    /\ annotated' = draw_detections(frame, detections)
    /\ pc' = "draw_done"
    /\ UNCHANGED << inputVars, fsVars, mode, pdVars, pvInput, pvOut, capture,
                    metadata, effective_imgsz, detector, writer, frame_index,
                    total_detections, frame, detections, exc, ret, readLog,
                    detLog, openedLog >>

SpecDraw == InitDraw /\ [][DrawCall]_vars

\* =================================================================== claims
\* The frames the sink of the current run has received.
Written ==
    IF pvOut \in DOMAIN outFiles THEN outFiles[pvOut] ELSE << >>

PvExited == pc \in { "pv_returned", "pv_raised" }

\* C1: whenever process_video exits after the capture was opened, normally or
\* by an exception from Detector(...), create_video_writer or the frame loop,
\* the capture has been released and no writer is left open.
C1_ReleasedOnEveryExit ==
    (PvExited /\ capture.state # "none")
      => (capture.state = "released" /\ writer # "open")

\* C2: when process_video has failed, no output video file of that run exists
\* at output_path.
C2_NoPartialOutput ==
    pc = "pv_raised" => pvOut \notin DOMAIN outFiles

\* C3: frames go through the pipeline one at a time and in source order: the
\* frames read are 1, 2, 3, ... with none skipped or repeated, the frames the
\* writer received are a prefix of the frames read, and a frame is read or
\* detected only when every earlier frame has been written.
C3_InOrderOneAtATime ==
    /\ \A i \in 1..Len(readLog) : readLog[i] = i
    /\ Len(Written) <= Len(readLog)
    /\ SubSeq(readLog, 1, Len(Written)) = Written
    /\ Len(readLog) <= Len(Written) + 1
    /\ Len(detLog) <= Len(Written) + 1
    /\ Len(detLog) <= Len(readLog)
    /\ pc \in { "pv_detect", "pv_draw", "pv_write" } => frame = Len(Written) + 1
    /\ pc = "pv_write" => annotated.id = frame

C3_Witness ==
    /\ pc = "pv_read"
    /\ Written = <<1, 2>>
    /\ readLog = <<1, 2>>

\* C4: at the head of the frame loop frame_index is the number of frames
\* written so far and total_detections the sum of the detection counts of
\* those frames; a run that completes on a video of n frames returns
\* frames = n = the number of frames written and total_detections = the sum
\* of the n detection counts.
C4_CountersMatch ==
    /\ pc = "pv_read" =>
         /\ frame_index = Len(Written)
         /\ Len(detLog) = Len(Written)
         /\ total_detections = SumSeq(detLog)
    /\ pc = "pv_returned" =>
         /\ ret.frames = pvInput.file.nframes
         /\ ret.frames = Len(Written)
         /\ Len(detLog) = ret.frames
         /\ ret.total_detections = SumSeq(detLog)

C4_Witness ==
    /\ pc = "pv_returned"
    /\ ret.frames = 2
    /\ detLog = <<2, 1>>
    /\ ret.total_detections = 3

\* C5: the returned avg_detections_per_frame is total_detections / frames when
\* frames > 0 and 0 when frames = 0, and no ZeroDivisionError is ever raised.
C5_Average ==
    /\ exc # "ZeroDivisionError"
    /\ pc = "pv_returned" =>
         LET avg == ret.avg_detections_per_frame
         IN  /\ avg.den > 0
             /\ ret.frames > 0 => avg.num * ret.frames = ret.total_detections * avg.den
             /\ ret.frames = 0 => avg.num = 0

C5_Witness ==
    /\ pc = "pv_returned"
    /\ pvInput.file.nframes = 0
    /\ ret.frames = 0
    /\ ret.avg_detections_per_frame = FloatZero

\* C6: with w and h the box sides clamped to at least one pixel and
\* ref = min(w, h), the scale used for a detection is the small profile for
\* ref < 60, the medium profile for 60 <= ref < 150 and the large profile for
\* ref >= 150, whatever the confidence; (10,10,40,40) is small, (0,0,200,200)
\* is large, an inverted or degenerate box is small.
C6_BucketOf(bbox) ==
    LET w   == IF bbox[3] - bbox[1] < Units THEN Units ELSE bbox[3] - bbox[1]
        h   == IF bbox[4] - bbox[2] < Units THEN Units ELSE bbox[4] - bbox[2]
        ref == IF w < h THEN w ELSE h
    IN  CASE ref < 60 * Units -> "small"
          [] ref >= 60 * Units /\ ref < 150 * Units -> "medium"
          [] ref >= 150 * Units -> "large"

C6_Profile(bucket) ==
    CASE bucket = "small" ->
           [text_scale |-> 40, text_thickness |-> 1, box_thickness |-> 1, padding |-> 2]
      [] bucket = "medium" ->
           [text_scale |-> 55, text_thickness |-> 1, box_thickness |-> 2, padding |-> 4]
      [] bucket = "large" ->
           [text_scale |-> 75, text_thickness |-> 2, box_thickness |-> 3, padding |-> 6]

\* C6: every shape drawn uses the profile of the bucket its box's ref selects.
C6_Buckets ==
    pc = "draw_done" =>
      /\ Len(annotated.shapes) = Len(detections)
      /\ \A i \in 1..Len(detections) :
           LET b == detections[i].bbox
           IN  /\ annotated.shapes[i].scale = C6_Profile(C6_BucketOf(b))
               /\ b = <<10 * Units, 10 * Units, 40 * Units, 40 * Units>>
                    => annotated.shapes[i].scale.box_thickness = 1
               /\ b = <<0, 0, 200 * Units, 200 * Units>>
                    => annotated.shapes[i].scale.box_thickness = 3
               /\ (b[3] <= b[1] \/ b[4] <= b[2])
                    => annotated.shapes[i].scale.box_thickness = 1

C6_Witness ==
    /\ pc = "draw_done"
    /\ Len(detections) = 1
    /\ detections[1].bbox[3] - detections[1].bbox[1] = 200 * Units
    /\ detections[1].bbox[4] - detections[1].bbox[2] = 60 * Units
    /\ annotated.shapes[1].scale.text_scale = 55

\* C7: the inference size given to the Detector and recorded in
\* VideoMetrics.imgsz is, for a requested size s, the smallest multiple of 32
\* that is >= s (500 gives 512), and with no size requested the pair made of
\* the smallest multiple of 32 >= height and the smallest multiple >= width.
C7_SmallestMultiple(r, s) ==
    /\ r % 32 = 0
    /\ r >= s
    /\ r - 32 < s

C7_Aligned(r) ==
    IF argImgsz.kind = "int"
      THEN /\ r.kind = "int"
           /\ C7_SmallestMultiple(r.a, argImgsz.a)
           /\ argImgsz.a = 500 => r.a = 512
           /\ argImgsz.a % 32 = 0 => r.a = argImgsz.a
      ELSE /\ r.kind = "pair"
           /\ C7_SmallestMultiple(r.a, pvInput.file.height)
           /\ C7_SmallestMultiple(r.b, pvInput.file.width)

\* C7: the Detector's size and the recorded size are both stride-aligned.
C7_StrideAligned ==
    /\ detector.built => C7_Aligned(detector.imgsz)
    /\ pc = "pv_returned" => (C7_Aligned(ret.imgsz) /\ ret.imgsz = detector.imgsz)

C7_Witness ==
    /\ pc = "pv_returned"
    /\ argImgsz = IntImgsz(500)
    /\ detector.imgsz = IntImgsz(512)
    /\ ret.imgsz = IntImgsz(512)

\* The names of a list of entries.
NamesOf(q) == [i \in 1..Len(q) |-> q[i].name]

\* C8: in a batch, when process_video fails for the k-th video no VideoMetrics
\* is produced for it, exactly the k-1 earlier videos have been collected, no
\* later video is opened, the exception is never swallowed, and neither
\* metrics.json nor metrics.csv is written.
C8_FailureHaltsBatch ==
    mode = "batch" =>
      /\ exc # "none" => pc \in { "pv_finally", "pv_raised", "crashed" }
      /\ Len(openedLog) <= Len(collected) + 1
      /\ metricsJson.written \/ metricsCsv.written => exc = "none"
      /\ (pc \in { "pv_raised", "crashed" } /\ videos # << >>) =>
           /\ ret = NoMetrics
           /\ Len(collected) = idx - 1
           /\ openedLog = SubSeq(NamesOf(videos), 1, idx)
           /\ \A i \in (idx + 1)..Len(videos) : videos[i].name \notin DOMAIN outFiles
           /\ ~metricsJson.written
           /\ ~metricsCsv.written

C8_Witness ==
    /\ mode = "batch"
    /\ pc = "crashed"
    /\ Len(videos) = 3
    /\ idx = 2
    /\ Len(collected) = 1
    /\ Len(openedLog) = 2

\* C9: in a batch the videos are opened in increasing lexicographic order of
\* file name, one at a time (a video is opened only when the metrics of every
\* video opened before it have been appended), the collection holds the
\* metrics of the opened videos in that order, and when process_directory has
\* returned it (and the exported record list) holds exactly one entry per
\* recognized video file of the directory.
C9_Recognized ==
    { p.name : p \in { q \in assets.entries :
        /\ q.is_file
        /\ \E e \in { <<46, 109, 112, 52>>, <<46, 109, 111, 118>>,
                      <<46, 97, 118, 105>>, <<46, 109, 107, 118>> } :
             Lower(Suffix(q.name)) = e } }

\* C9: lexicographic, one at a time, append-only, one entry per recognized file.
C9_OrderedBatch ==
    mode = "batch" =>
      /\ \A i \in 1..Len(openedLog) : \A j \in 1..Len(openedLog) :
           i < j => StrLess(openedLog[i], openedLog[j])
      /\ Len(collected) <= Len(openedLog)
      /\ Len(openedLog) <= Len(collected) + 1
      /\ \A i \in 1..Len(collected) : collected[i].input_path = openedLog[i]
      /\ pc \in { "main_write", "done" } =>
           /\ Len(collected) = Cardinality(C9_Recognized)
           /\ { collected[i].input_path : i \in 1..Len(collected) } = C9_Recognized
      /\ pc = "done" =>
           /\ metricsJson.written
           /\ Len(metricsJson.data) = Len(collected)
           /\ \A i \in 1..Len(collected) :
                metricsJson.data[i].input_path = collected[i].input_path

C9_Witness ==
    /\ mode = "batch"
    /\ pc = "done"
    /\ Len(collected) = 3
    /\ collected[1].input_path = <<66, 46, 77, 79, 86>>
    /\ collected[3].input_path = <<98, 46, 109, 112, 52>>

\* C10: for a directory with no recognized video file process_directory raises
\* the empty-batch error and nothing is written: the output directory is not
\* created, no video is opened, no output video and no metrics file exists.
C10_EmptyBatch ==
    (mode = "batch" /\ C9_Recognized = {}) =>
      /\ pc \in { "pd_list", "crashed" }
      /\ pc = "crashed" => exc = "FileNotFoundError"
      /\ outDir # "created"
      /\ openedLog = << >>
      /\ outFiles = << >>
      /\ ~metricsJson.written
      /\ ~metricsCsv.written

C10_Witness ==
    /\ mode = "batch"
    /\ pc = "crashed"
    /\ exc = "FileNotFoundError"
    /\ Cardinality(assets.entries) = 2
    /\ outDir = "absent"
    /\ openedLog = << >>

=============================================================================
